---- MODULE Spec2Model ----
(***************************************************************************)
(* Model of verl/utils/reward_score/node_selection.py:                     *)
(*   validate_and_extract_llm_content  (Field Extractor)                   *)
(*   compute_score                     (Reward Scorer)                     *)
(* Strings are sequences of one-character strings.  The regular expression *)
(* of the extractor is modelled by its backtracking search: the leftmost   *)
(* start position that matches, and at that position the first match in    *)
(* the order in which greedy and non-greedy quantifiers try their options. *)
(***************************************************************************)
EXTENDS Integers, Sequences, FiniteSets, TLC

VARIABLES solution_str, ground_truth, std_format, std_acc, pc, ret, res

vars == <<solution_str, ground_truth, std_format, std_acc, pc, ret, res>>

(***************************************************************************)
(* Bounds of the checked input space.                                      *)
(***************************************************************************)
MaxChunks == 4
MaxScoreChunks == 3
MaxLabels == 2

(***************************************************************************)
(* Characters and Python's str / re primitives.                            *)
(***************************************************************************)
UpperLetters == <<"A","B","C","D","E","F","G","H","I","J","K","L","M",
                  "N","O","P","Q","R","S","T","U","V","W","X","Y","Z">>
LowerLetters == <<"a","b","c","d","e","f","g","h","i","j","k","l","m",
                  "n","o","p","q","r","s","t","u","v","w","x","y","z">>

UpperToLower ==
  [c \in {UpperLetters[i] : i \in 1..26} |->
     LowerLetters[CHOOSE i \in 1..26 : UpperLetters[i] = c]]

LowerToUpper ==
  [c \in {LowerLetters[i] : i \in 1..26} |->
     UpperLetters[CHOOSE i \in 1..26 : LowerLetters[i] = c]]

\* str.lower() on one character
LowerChar(c) == IF c \in DOMAIN UpperToLower THEN UpperToLower[c] ELSE c

\* str.upper() on one character
UpperChar(c) == IF c \in DOMAIN LowerToUpper THEN LowerToUpper[c] ELSE c

\* str.lower()
Lower(s) == [i \in 1..Len(s) |-> LowerChar(s[i])]

\* the characters matched by \s and removed by str.strip()
IsSpace(c) == c \in {" ", "\n", "\t"}

\* the length of the whitespace run of s that starts at position p
RECURSIVE WsRun(_, _)
WsRun(s, p) == IF p <= Len(s) /\ IsSpace(s[p]) THEN 1 + WsRun(s, p + 1) ELSE 0

\* the length of the whitespace run of s that ends at position p
RECURSIVE WsRunBack(_, _)
WsRunBack(s, p) == IF p >= 1 /\ IsSpace(s[p]) THEN 1 + WsRunBack(s, p - 1) ELSE 0

\* number of leading whitespace characters of s
LeadWs(s) == WsRun(s, 1)

\* number of trailing whitespace characters of s
TrailWs(s) == WsRunBack(s, Len(s))

\* str.strip()
Strip(s) ==
  IF LeadWs(s) = Len(s) THEN <<>>
  ELSE SubSeq(s, LeadWs(s) + 1, Len(s) - TrailWs(s))

\* re.sub(r"\s+", " ", s): every maximal whitespace run becomes one space
RECURSIVE CollapseWs(_)
CollapseWs(s) ==
  IF s = <<>> THEN <<>>
  ELSE IF IsSpace(Head(s))
       THEN <<" ">> \o CollapseWs(SubSeq(s, LeadWs(s) + 1, Len(s)))
       ELSE <<Head(s)>> \o CollapseWs(Tail(s))

\* variant: content.strip() without the re.sub
Clean_noCollapse(content) == Strip(content)

\* cleaned_content = re.sub(r"\s+", " ", content.strip())
Clean(content) == CollapseWs(Strip(content))

(***************************************************************************)
(* The pattern                                                             *)
(*  Intent:\s*(?P<intent>.+?)\s*Node:\s*(?P<node>.+?)\s*Reason:\s*(?P<reason>.+)$ *)
(* searched with re.DOTALL | re.IGNORECASE.                                *)
(***************************************************************************)
\* the three literals of the pattern
PatIntent == <<"I","n","t","e","n","t",":">>
PatNode == <<"N","o","d","e",":">>
\* variant: the second label repeated in place of the third
PatReason_copyNode == <<"N","o","d","e",":">>
PatReason == <<"R","e","a","s","o","n",":">>

\* variant: the search without re.IGNORECASE
LitAt_caseSensitive(s, p, lit) ==
  /\ p >= 1
  /\ p + Len(lit) - 1 <= Len(s)
  /\ \A i \in 1..Len(lit) : s[p + i - 1] = lit[i]

\* a literal of the pattern matches s at position p (re.IGNORECASE)
LitAt(s, p, lit) ==
  /\ p >= 1
  /\ p + Len(lit) - 1 <= Len(s)
  /\ \A i \in 1..Len(lit) : LowerChar(s[p + i - 1]) = LowerChar(lit[i])

\* positions where $ matches (no re.MULTILINE): the end, or before a final newline
DollarAt(s, p) == p = Len(s) + 1 \/ (p = Len(s) /\ s[p] = "\n")

\* \s*(?P<reason>.+)$ tried at p, the position after "Reason:".
\* A candidate <<w, e>>: \s* takes w characters, reason is s[p+w .. e].
ReasonCands(s, p) ==
  {c \in (0..WsRun(s, p)) \X (p..Len(s)) :
     /\ c[2] >= p + c[1]
     /\ DollarAt(s, c[2] + 1)}

\* greedy \s* first, then greedy .+
ReasonBefore(c, d) == c[1] > d[1] \/ (c[1] = d[1] /\ c[2] >= d[2])

ReasonBest(s, p) ==
  LET cands == ReasonCands(s, p)
  IN CHOOSE c \in cands : \A d \in cands : ReasonBefore(c, d)

\* \s*(?P<node>.+?)\s*Reason: ... tried at p, the position after "Node:".
\* A candidate <<w3, l, w4>>: \s* takes w3, node is l characters, \s* takes w4.
NodeCands(s, p) ==
  UNION {
    {<<c[1], c[2], w4>> : w4 \in
       {w \in 0..WsRun(s, p + c[1] + c[2]) :
          /\ LitAt(s, p + c[1] + c[2] + w, PatReason)
          /\ ReasonCands(s, p + c[1] + c[2] + w + Len(PatReason)) # {}}}
    : c \in (0..WsRun(s, p)) \X (1..(Len(s) - p + 1))}

\* variant: (?P<node>.+) in place of (?P<node>.+?)
NodeBefore_greedy(c, d) ==
  \/ c[1] > d[1]
  \/ (c[1] = d[1] /\ c[2] > d[2])
  \/ (c[1] = d[1] /\ c[2] = d[2] /\ c[3] >= d[3])

\* greedy \s*, then non-greedy .+?, then greedy \s*
NodeBefore(c, d) ==
  \/ c[1] > d[1]
  \/ (c[1] = d[1] /\ c[2] < d[2])
  \/ (c[1] = d[1] /\ c[2] = d[2] /\ c[3] >= d[3])

NodeBest(s, p) ==
  LET cands == NodeCands(s, p)
  IN CHOOSE c \in cands : \A d \in cands : NodeBefore(c, d)

\* \s*(?P<intent>.+?)\s*Node: ... tried at p, the position after "Intent:".
IntentCands(s, p) ==
  UNION {
    {<<c[1], c[2], w2>> : w2 \in
       {w \in 0..WsRun(s, p + c[1] + c[2]) :
          /\ LitAt(s, p + c[1] + c[2] + w, PatNode)
          /\ NodeCands(s, p + c[1] + c[2] + w + Len(PatNode)) # {}}}
    : c \in (0..WsRun(s, p)) \X (1..(Len(s) - p + 1))}

\* variant: Intent:\s*? in place of Intent:\s*
IntentBefore_lazyWs(c, d) ==
  \/ c[1] < d[1]
  \/ (c[1] = d[1] /\ c[2] < d[2])
  \/ (c[1] = d[1] /\ c[2] = d[2] /\ c[3] >= d[3])

\* greedy \s*, then non-greedy .+?, then greedy \s*
IntentBefore(c, d) ==
  \/ c[1] > d[1]
  \/ (c[1] = d[1] /\ c[2] < d[2])
  \/ (c[1] = d[1] /\ c[2] = d[2] /\ c[3] >= d[3])

IntentBest(s, p) ==
  LET cands == IntentCands(s, p)
  IN CHOOSE c \in cands : \A d \in cands : IntentBefore(c, d)

\* variant: re.match in place of re.search
MatchStarts_anchored(s) ==
  {i \in {1} : LitAt(s, i, PatIntent) /\ IntentCands(s, i + Len(PatIntent)) # {}}

\* start positions at which the whole pattern matches
MatchStarts(s) ==
  {i \in 1..Len(s) : LitAt(s, i, PatIntent) /\ IntentCands(s, i + Len(PatIntent)) # {}}

\* the groups of a match that starts at i, once \s*(?P<intent>.+?)\s* took ci
IntentGroups(i, ci) ==
  [found |-> TRUE, start |-> i,
   intentB |-> i + Len(PatIntent) + ci[1],
   intentE |-> i + Len(PatIntent) + ci[1] + ci[2] - 1,
   nodeLabel |-> i + Len(PatIntent) + ci[1] + ci[2] + ci[3]]

\* ... once \s*(?P<node>.+?)\s* took cn
NodeGroups(g, cn) ==
  g @@ [nodeB |-> g.nodeLabel + Len(PatNode) + cn[1],
        nodeE |-> g.nodeLabel + Len(PatNode) + cn[1] + cn[2] - 1,
        reasonLabel |-> g.nodeLabel + Len(PatNode) + cn[1] + cn[2] + cn[3]]

\* ... once \s*(?P<reason>.+)$ took cr
ReasonGroups(g, cr) ==
  g @@ [reasonB |-> g.reasonLabel + Len(PatReason) + cr[1], reasonE |-> cr[2]]

WithIntent(s, i) == IntentGroups(i, IntentBest(s, i + Len(PatIntent)))
WithNode(s, g) == NodeGroups(g, NodeBest(s, g.nodeLabel + Len(PatNode)))
WithReason(s, g) == ReasonGroups(g, ReasonBest(s, g.reasonLabel + Len(PatReason)))

\* the first match in backtracking order among those that start at i
MatchAt(s, i) == WithReason(s, WithNode(s, WithIntent(s, i)))

\* re.search: the match at the leftmost start, as the positions of its groups
Search(s) ==
  LET starts == MatchStarts(s)
  IN IF starts = {} THEN [found |-> FALSE]
     ELSE MatchAt(s, CHOOSE x \in starts : \A y \in starts : x <= y)

None == <<"None">>

Invalid == [flag |-> FALSE, intent |-> None, node |-> None, reason |-> None]

\* variant: the tuple returned without the check
CheckEmpty_skipped(intent_content, node_content, reason_content) ==
  [flag |-> TRUE, intent |-> intent_content,
   node |-> node_content, reason |-> reason_content]

\* the check that no content is empty, and the returned tuple
CheckEmpty(intent_content, node_content, reason_content) ==
  IF ~(intent_content # <<>> /\ node_content # <<>> /\ reason_content # <<>>)
  THEN Invalid
  ELSE [flag |-> TRUE, intent |-> intent_content,
        node |-> node_content, reason |-> reason_content]

\* what follows re.search: no match is Invalid, else the stripped groups
Extract(cleaned_content, match) ==
  IF ~match.found THEN Invalid
  ELSE CheckEmpty(Strip(SubSeq(cleaned_content, match.intentB, match.intentE)),
                  Strip(SubSeq(cleaned_content, match.nodeB, match.nodeE)),
                  Strip(SubSeq(cleaned_content, match.reasonB, match.reasonE)))

validate_and_extract_llm_content(content) == Extract(Clean(content), Search(Clean(content)))

(***************************************************************************)
(* compute_score                                                           *)
(***************************************************************************)
\* variant: the ground truth taken as one candidate
Split_whole(s) == <<s>>

\* str.split(","): the pieces between commas; "" gives [""]
RECURSIVE Split(_)
Split(s) ==
  IF \A i \in 1..Len(s) : s[i] # ","
  THEN <<s>>
  ELSE LET k == CHOOSE i \in 1..Len(s) : s[i] = "," /\ \A j \in 1..(i - 1) : s[j] # ","
       IN <<SubSeq(s, 1, k - 1)>> \o Split(SubSeq(s, k + 1, Len(s)))

\* a ground truth is a str or a sequence of str
GtStr(s) == [isStr |-> TRUE, str |-> s, list |-> <<>>]
GtList(l) == [isStr |-> FALSE, str |-> <<>>, list |-> l]

\* true_nodes: the stripped, lower-cased candidates
TrueNodes(gt) ==
  LET items == IF gt.isStr THEN Split(gt.str) ELSE gt.list
  IN {Lower(Strip(items[i])) : i \in 1..Len(items)}

\* the label texts of the prediction string
LitIntent == <<"I","n","t","e","n","t",":">>
LitNode == <<"N","o","d","e",":">>
LitReason == <<"R","e","a","s","o","n",":">>

\* the characters U+274C and U+2705, each one element of a string
CrossMark == "U+274C"
CheckMark == "U+2705"

TagFormatBad == <<"[",CrossMark,"F","o","r","m","a","t","]">>
TagNodeGood == <<"[",CheckMark,"F","o","r","m","a","t",CheckMark,"N","o","d","e","]">>
TagNodeBad == <<"[",CheckMark,"F","o","r","m","a","t",CrossMark,"N","o","d","e","]">>

\* f"Intent: {intent}\nNode: {node}\nReason: {reason}"
Reassemble(intent, node, reason) ==
  LitIntent \o <<" ">> \o intent \o <<"\n">> \o LitNode \o <<" ">> \o node
    \o <<"\n">> \o LitReason \o <<" ">> \o reason

\* the result for a failed format check
FormatFailure(v, sol, stdf, stda) ==
  [v |-> v, format_score |-> -stdf, acc_score |-> -stda,
   score |-> (-stda) + (-stdf), acc |-> FALSE, pred |-> TagFormatBad \o sol]

\* the result for a node among the true nodes
NodeHit(v, stdf, stda) ==
  [v |-> v, format_score |-> stdf, acc_score |-> stda,
   score |-> stda + stdf, acc |-> TRUE,
   pred |-> TagNodeGood \o Reassemble(v.intent, v.node, v.reason)]

\* the result for a node not among the true nodes
NodeMiss(v, stdf, stda) ==
  [v |-> v, format_score |-> stdf, acc_score |-> -stda,
   score |-> (-stda) + stdf, acc |-> FALSE,
   pred |-> TagNodeBad \o Reassemble(v.intent, v.node, v.reason)]

\* variant: node in place of node.lower()
Score_caseSensitive(v, sol, gt, stdf, stda) ==
  IF ~v.flag THEN FormatFailure(v, sol, stdf, stda)
  ELSE IF v.node \in TrueNodes(gt) THEN NodeHit(v, stdf, stda)
  ELSE NodeMiss(v, stdf, stda)

\* variant: the normalized text in pred
Score_cleanedPred(v, sol, gt, stdf, stda) ==
  IF ~v.flag THEN FormatFailure(v, Clean(sol), stdf, stda)
  ELSE IF Lower(v.node) \in TrueNodes(gt) THEN NodeHit(v, stdf, stda)
  ELSE NodeMiss(v, stdf, stda)

\* compute_score after the call of the extractor; v holds format_flag, intent,
\* node and reason
Score(v, sol, gt, stdf, stda) ==
  IF ~v.flag THEN FormatFailure(v, sol, stdf, stda)
  ELSE IF Lower(v.node) \in TrueNodes(gt) THEN NodeHit(v, stdf, stda)
  ELSE NodeMiss(v, stdf, stda)

compute_score(sol, gt, stdf, stda) ==
  Score(validate_and_extract_llm_content(sol), sol, gt, stdf, stda)

(***************************************************************************)
(* The inputs: texts built from chunks, rendered in three layouts.         *)
(***************************************************************************)
ChunkX == <<"x">>
ChunkColon == <<":">>
ChunkIntentX == LitIntent \o <<" ", "x">>
ChunkNodeX == LitNode \o <<" ", "x">>
ChunkReasonX == LitReason \o <<" ", "x">>

Alphabet ==
  {LitIntent, ChunkIntentX, LitNode, ChunkNodeX, LitReason, ChunkReasonX,
   ChunkX, ChunkColon}

ScoreAlphabet == {ChunkIntentX, ChunkNodeX, ChunkReasonX, ChunkColon}

ChunkSeqs(alphabet, n) == UNION {[1..k -> alphabet] : k \in 0..n}

SwapCaseChar(c) == IF LowerChar(c) # c THEN LowerChar(c) ELSE UpperChar(c)

SwapCase(s) == [i \in 1..Len(s) |-> SwapCaseChar(s[i])]

RECURSIVE Join(_, _)
Join(cs, sep) ==
  IF cs = <<>> THEN <<>>
  ELSE IF Len(cs) = 1 THEN cs[1]
  ELSE cs[1] \o sep \o Join(Tail(cs), sep)

Modes == {"plain", "tight", "messy"}

\* plain: single spaces; tight: nothing between chunks;
\* messy: whitespace runs with newlines around and between chunks, case swapped
Render(cs, mode) ==
  CASE mode = "plain" -> Join(cs, <<" ">>)
    [] mode = "tight" -> Join(cs, <<>>)
    [] mode = "messy" -> <<" ", "\n">> \o SwapCase(Join(cs, <<"\n", "\t">>)) \o <<"\n">>

Texts(alphabet, n) == {Render(cs, m) : cs \in ChunkSeqs(alphabet, n), m \in Modes}

GtLabels == {<<" ", "X">>, <<":">>}

LabelSeqs == UNION {[1..k -> GtLabels] : k \in 0..MaxLabels}

GroundTruths ==
  {GtList(l) : l \in LabelSeqs}
    \cup {GtStr(Join(l, <<",">>)) : l \in LabelSeqs}
    \cup {GtStr(Join(l, <<",", " ">>)) : l \in LabelSeqs}

\* the default weights of compute_score
DefaultStdFormat == 1
DefaultStdAcc == 3

Weights == {<<DefaultStdFormat, DefaultStdAcc>>, <<2, 2>>, <<0, 1>>}

DefaultGt == GtStr(<<"X", ",", ":">>)

NoRes == [v |-> Invalid, format_score |-> 0, acc_score |-> 0, score |-> 0, acc |-> FALSE, pred |-> None]

Init ==
  /\ solution_str \in Texts(Alphabet, MaxChunks)
  /\ ground_truth = DefaultGt
  /\ std_format = DefaultStdFormat
  /\ std_acc = DefaultStdAcc
  /\ pc = "start"
  /\ ret = Invalid
  /\ res = NoRes

InitScore ==
  /\ solution_str \in Texts(ScoreAlphabet, MaxScoreChunks)
  /\ ground_truth \in GroundTruths
  /\ \E w \in Weights : std_format = w[1] /\ std_acc = w[2]
  /\ pc = "start"
  /\ ret = Invalid
  /\ res = NoRes

\* a call of validate_and_extract_llm_content(solution_str)
Validate ==
  /\ pc = "start"
  /\ ret' = validate_and_extract_llm_content(solution_str)
  /\ pc' = "validated"
  /\ UNCHANGED <<solution_str, ground_truth, std_format, std_acc, res>>

\* a call of compute_score(solution_str, ground_truth, std_format, std_acc)
ComputeScore ==
  /\ pc = "start"
  /\ res' = compute_score(solution_str, ground_truth, std_format, std_acc)
  /\ pc' = "scored"
  /\ UNCHANGED <<solution_str, ground_truth, std_format, std_acc, ret>>

Next == Validate \/ ComputeScore

Spec == Init /\ [][Next]_vars

SpecScore == InitScore /\ [][Next]_vars

(***************************************************************************)
(* Vocabulary of the properties.                                           *)
(***************************************************************************)
\* the label lit stands in s at position p, in any letter case
TokenAt(s, p, lit) ==
  /\ p + Len(lit) - 1 <= Len(s)
  /\ \A x \in 1..Len(lit) :
       s[p + x - 1] = lit[x] \/ s[p + x - 1] = SwapCaseChar(lit[x])

\* positions of s at which a label occurs, in any letter case
Occ(s, lit) == {p \in 1..Len(s) : TokenAt(s, p, lit)}

\* s[a..b] holds a character that is not whitespace
HasText(s, a, b) == \E x \in a..b : ~IsSpace(s[x])

\* s[a..b] is not empty and is whitespace only
OnlyWs(s, a, b) == a <= b /\ ~HasText(s, a, b)

\* 'Intent:' followed later by 'Node:' followed later by 'Reason:'
OrderedLabels(s) ==
  \E i \in Occ(s, LitIntent), j \in Occ(s, LitNode), k \in Occ(s, LitReason) :
    i < j /\ j < k

\* the occurrence of lit that follows position p most closely
NextOcc(s, p, lit) ==
  CHOOSE q \in Occ(s, lit) : q > p /\ \A r \in Occ(s, lit) : r > p => q <= r

HasNextOcc(s, p, lit) == \E q \in Occ(s, lit) : q > p

\* a label is followed by no text up to the next label of the following kind,
\* or 'Reason:' is followed by nothing
EmptyIntentAt(s, i) ==
  /\ HasNextOcc(s, i, LitNode)
  /\ ~HasText(s, i + Len(LitIntent), NextOcc(s, i, LitNode) - 1)

EmptyNodeAt(s, j) ==
  /\ HasNextOcc(s, j, LitReason)
  /\ ~HasText(s, j + Len(LitNode), NextOcc(s, j, LitReason) - 1)

EmptyReasonAt(s, k) == k + Len(LitReason) - 1 = Len(s)

\* a field with whitespace, and nothing else, between its label and the next
\* label of the following kind, or nothing after 'Reason:'
SomeFieldBlank(s) ==
  \/ \E i \in Occ(s, LitIntent) :
       /\ HasNextOcc(s, i, LitNode)
       /\ OnlyWs(s, i + Len(LitIntent), NextOcc(s, i, LitNode) - 1)
  \/ \E j \in Occ(s, LitNode) :
       /\ HasNextOcc(s, j, LitReason)
       /\ OnlyWs(s, j + Len(LitNode), NextOcc(s, j, LitReason) - 1)
  \/ \E k \in Occ(s, LitReason) : EmptyReasonAt(s, k)

Once(s, lit) == Cardinality(Occ(s, lit)) = 1

\* the same, where the label of the field and the label that ends the field
\* each occur exactly once in the text
SomeFieldEmptyUnique(s) ==
  \/ /\ Once(s, LitIntent) /\ Once(s, LitNode)
     /\ \E i \in Occ(s, LitIntent) : EmptyIntentAt(s, i)
  \/ /\ Once(s, LitNode) /\ Once(s, LitReason)
     /\ \E j \in Occ(s, LitNode) : EmptyNodeAt(s, j)
  \/ /\ Once(s, LitReason)
     /\ \E k \in Occ(s, LitReason) : EmptyReasonAt(s, k)

\* some choice of three label occurrences gives three fields with text
SomeChoiceValid(s) ==
  \E i \in Occ(s, LitIntent), j \in Occ(s, LitNode), k \in Occ(s, LitReason) :
    /\ i < j /\ j < k
    /\ HasText(s, i + Len(LitIntent), j - 1)
    /\ HasText(s, j + Len(LitNode), k - 1)
    /\ k + Len(LitReason) <= Len(s)

(***************************************************************************)
(* C1: a text whose normalized form lacks one of the three labels, or has  *)
(* no 'Intent:' followed later by 'Node:' followed later by 'Reason:',     *)
(* is extracted as Invalid, (False, None, None, None).                     *)
(***************************************************************************)
C1_MissingOrMisorderedInvalid ==
  (pc = "validated" /\ ~OrderedLabels(Clean(solution_str))) => ret = Invalid

\* all three labels are present, but not in Intent, Node, Reason order
C1_Witness ==
  /\ pc = "validated"
  /\ Occ(Clean(solution_str), LitIntent) # {}
  /\ Occ(Clean(solution_str), LitNode) # {}
  /\ Occ(Clean(solution_str), LitReason) # {}
  /\ ~OrderedLabels(Clean(solution_str))
  /\ ret = Invalid

(***************************************************************************)
(* C2 as stated: whenever some field has only whitespace between its label *)
(* and the next label (or nothing follows 'Reason:'), the result is        *)
(* Invalid.                                                                *)
(***************************************************************************)
C2_Original ==
  (pc = "validated" /\ SomeFieldBlank(Clean(solution_str))) => ret = Invalid

(***************************************************************************)
(* C2 amended: a field with only whitespace between its label and the next *)
(* label (or nothing after 'Reason:') gives Invalid when that label and    *)
(* that next label each occur exactly once in the normalized text.         *)
(***************************************************************************)
C2_EmptyFieldInvalid ==
  (pc = "validated" /\ SomeFieldEmptyUnique(Clean(solution_str))) => ret = Invalid

\* the three labels in order, once each, with an empty field in between
C2_Witness ==
  /\ pc = "validated"
  /\ OrderedLabels(Clean(solution_str))
  /\ Once(Clean(solution_str), LitIntent)
  /\ Once(Clean(solution_str), LitNode)
  /\ Once(Clean(solution_str), LitReason)
  /\ \E j \in Occ(Clean(solution_str), LitNode) :
       /\ EmptyNodeAt(Clean(solution_str), j)
       /\ IsSpace(Clean(solution_str)[j + Len(LitNode)])
  /\ ret = Invalid

(***************************************************************************)
(* C10: the result is Valid exactly when the normalized text has, in any   *)
(* letter case, an 'Intent:' followed by text with a non-whitespace        *)
(* character, then a 'Node:' followed by text with a non-whitespace        *)
(* character, then a 'Reason:' followed by at least one character.         *)
(***************************************************************************)
C10_ValidIffSomeChoice ==
  pc = "validated" => (ret.flag <=> SomeChoiceValid(Clean(solution_str)))

\* the first 'Node:' after 'Intent:' would leave intent empty; a later one is used
C10_Witness ==
  /\ pc = "validated"
  /\ ret.flag
  /\ \E i \in Occ(Clean(solution_str), LitIntent) :
       /\ EmptyIntentAt(Clean(solution_str), i)
       /\ IsSpace(Clean(solution_str)[i + Len(LitIntent)])

(***************************************************************************)
(* Changing the letter case of label tokens.                               *)
(***************************************************************************)
\* the positions of s inside an occurrence of one of the three labels
LabelPositions(s) ==
  UNION {UNION {p..(p + Len(lit) - 1) : p \in Occ(s, lit)} :
           lit \in {LitIntent, LitNode, LitReason}}

\* every label token of s in upper case, in swapped case
UpperLabels(s) ==
  LET tok == LabelPositions(s)
  IN [x \in 1..Len(s) |-> IF x \in tok THEN UpperChar(s[x]) ELSE s[x]]
SwapLabels(s) ==
  LET tok == LabelPositions(s)
  IN [x \in 1..Len(s) |-> IF x \in tok THEN SwapCaseChar(s[x]) ELSE s[x]]

\* the three label tokens used by the match in swapped case, all else as it is
SwapAt(s, m) ==
  IF ~m.found THEN s
  ELSE [x \in 1..Len(s) |->
          IF \/ (m.start <= x /\ x < m.start + Len(LitIntent))
             \/ (m.nodeLabel <= x /\ x < m.nodeLabel + Len(LitNode))
             \/ (m.reasonLabel <= x /\ x < m.reasonLabel + Len(LitReason))
          THEN SwapCaseChar(s[x]) ELSE s[x]]

SwapMatched(s) == SwapAt(s, Search(s))

\* a result with the recasing f applied to its fields
MapFields(f(_), r) ==
  IF ~r.flag THEN r
  ELSE [flag |-> TRUE, intent |-> f(r.intent), node |-> f(r.node), reason |-> f(r.reason)]

(***************************************************************************)
(* C4 as stated: changing the letter case of any 'Intent' / 'Node' /       *)
(* 'Reason' label token of the input changes neither Valid / Invalid nor   *)
(* the extracted intent, node and reason.                                  *)
(***************************************************************************)
C4_Original ==
  pc = "validated" =>
    /\ validate_and_extract_llm_content(UpperLabels(solution_str)) = ret
    /\ validate_and_extract_llm_content(SwapLabels(solution_str)) = ret

(***************************************************************************)
(* C4 amended: changing the letter case of label tokens never changes      *)
(* Valid / Invalid; changing the case of the three labels the match uses   *)
(* leaves intent, node and reason unchanged; a label token that lies       *)
(* inside a field value is returned in that field with its new case, and   *)
(* nothing else of the extracted contents changes.                         *)
(***************************************************************************)
C4_CaseInsensitiveLabels ==
  pc = "validated" =>
    /\ validate_and_extract_llm_content(UpperLabels(solution_str))
         = MapFields(UpperLabels, ret)
    /\ validate_and_extract_llm_content(SwapLabels(solution_str))
         = MapFields(SwapLabels, ret)
    /\ validate_and_extract_llm_content(SwapMatched(Clean(solution_str))) = ret

\* a Valid result whose labels are not in the case of the pattern
C4_Witness ==
  /\ pc = "validated"
  /\ ret.flag
  /\ UpperLabels(solution_str) # solution_str
  /\ Occ(ret.intent, LitNode) = {}
  /\ \A p \in Occ(solution_str, LitIntent) :
       SubSeq(solution_str, p, p + Len(LitIntent) - 1) # LitIntent

(***************************************************************************)
(* C5: what precedes the first 'Intent:' is discarded: the result is the   *)
(* result for the normalized text from that first 'Intent:' on; and a      *)
(* Valid result returns as reason everything after the matched 'Reason:'   *)
(* up to the end of the normalized text.                                   *)
(***************************************************************************)
FirstOcc(s, lit) == CHOOSE p \in Occ(s, lit) : \A q \in Occ(s, lit) : p <= q

C5_LeadingDroppedTrailingKept ==
  pc = "validated" =>
    LET s == Clean(solution_str)
    IN /\ Occ(s, LitIntent) # {} =>
            validate_and_extract_llm_content(SubSeq(s, FirstOcc(s, LitIntent), Len(s))) = ret
       /\ ret.flag =>
            /\ ret.reason =
                 Strip(SubSeq(s, Search(s).reasonLabel + Len(LitReason), Len(s)))
            /\ \E k \in Occ(s, LitReason) :
                 ret.reason = Strip(SubSeq(s, k + Len(LitReason), Len(s)))

\* a Valid result for a text with content before the first 'Intent:'
C5_Witness ==
  /\ pc = "validated"
  /\ ret.flag
  /\ FirstOcc(Clean(solution_str), LitIntent) > 1

(***************************************************************************)
(* C6: for non-empty normalized values A, B, C, which may hold colons,     *)
(* with no 'Node:' token in A and no 'Reason:' token in B, the text        *)
(* 'Intent: A Node: B Reason: C' is extracted as (True, A, B, C).          *)
(***************************************************************************)
\* v is not empty, has no whitespace at its ends, and its only whitespace
\* is single spaces
Normalized(v) ==
  /\ v # <<>>
  /\ ~IsSpace(v[1])
  /\ ~IsSpace(v[Len(v)])
  /\ \A x \in 1..Len(v) : IsSpace(v[x]) => v[x] = " "
  /\ \A x \in 1..(Len(v) - 1) : ~(IsSpace(v[x]) /\ IsSpace(v[x + 1]))

\* s is 'Intent: A Node: B Reason: C' with 'Node:' at j and 'Reason:' at k
ShapeABC(s, j, k) ==
  /\ Len(s) >= k + Len(LitReason) + 1
  /\ j > Len(LitIntent) + 2
  /\ k > j + Len(LitNode) + 1
  /\ SubSeq(s, 1, Len(LitIntent) + 1) = LitIntent \o <<" ">>
  /\ SubSeq(s, j - 1, j + Len(LitNode)) = <<" ">> \o LitNode \o <<" ">>
  /\ SubSeq(s, k - 1, k + Len(LitReason)) = <<" ">> \o LitReason \o <<" ">>

ValueA(s, j, k) == SubSeq(s, Len(LitIntent) + 2, j - 2)
ValueB(s, j, k) == SubSeq(s, j + Len(LitNode) + 1, k - 2)
ValueC(s, j, k) == SubSeq(s, k + Len(LitReason) + 1, Len(s))

PreABC(s, j, k) ==
  /\ ShapeABC(s, j, k)
  /\ Normalized(ValueA(s, j, k))
  /\ Normalized(ValueB(s, j, k))
  /\ Normalized(ValueC(s, j, k))
  /\ Occ(ValueA(s, j, k), LitNode) = {}
  /\ Occ(ValueB(s, j, k), LitReason) = {}

C6_ColonsInValues ==
  pc = "validated" =>
    \A j \in 1..Len(solution_str), k \in 1..Len(solution_str) :
      PreABC(solution_str, j, k) =>
        ret = [flag |-> TRUE, intent |-> ValueA(solution_str, j, k),
               node |-> ValueB(solution_str, j, k),
               reason |-> ValueC(solution_str, j, k)]

\* B begins with 'Node:'
C6_Witness ==
  /\ pc = "validated"
  /\ \E j \in 1..Len(solution_str), k \in 1..Len(solution_str) :
       /\ PreABC(solution_str, j, k)
       /\ 1 \in Occ(ValueB(solution_str, j, k), LitNode)
       /\ ret.flag

(***************************************************************************)
(* C7: every result is (False, None, None, None) or (True, intent, node,   *)
(* reason) with three non-empty strings that have no whitespace at their   *)
(* ends, no newline, and no run of two or more whitespace characters.      *)
(***************************************************************************)
C7_AllOrNothingNormalized ==
  pc = "validated" =>
    \/ ret = Invalid
    \/ /\ ret.flag
       /\ Normalized(ret.intent)
       /\ Normalized(ret.node)
       /\ Normalized(ret.reason)

\* a field that spans a whitespace run with a newline in the raw input
C7_Witness ==
  /\ pc = "validated"
  /\ ret.flag
  /\ \E x \in 1..Len(ret.intent) : ret.intent[x] = " "
  /\ \E x \in 1..(Len(solution_str) - 1) :
       solution_str[x] = "\n" /\ solution_str[x + 1] = "\t"

(***************************************************************************)
(* Vocabulary of the scoring properties.                                   *)
(***************************************************************************)
\* the pieces of s between commas: from a start of s or a comma up to the
\* next comma or the end of s
Pieces(s) ==
  {SubSeq(s, a, b) : <<a, b>> \in
     {c \in (1..(Len(s) + 1)) \X (0..Len(s)) :
        /\ c[2] >= c[1] - 1
        /\ (c[1] = 1 \/ s[c[1] - 1] = ",")
        /\ (c[2] = Len(s) \/ s[c[2] + 1] = ",")
        /\ \A x \in c[1]..c[2] : s[x] # ","}}

\* the trimmed, lower-cased candidates of a ground truth
Candidates(gt) ==
  {Lower(Strip(c)) :
     c \in IF gt.isStr THEN Pieces(gt.str) ELSE {gt.list[x] : x \in 1..Len(gt.list)}}

StartsWith(s, prefix) ==
  Len(s) >= Len(prefix) /\ SubSeq(s, 1, Len(prefix)) = prefix

TagCount(s) ==
  Cardinality({t \in {TagFormatBad, TagNodeGood, TagNodeBad} : StartsWith(s, t)})

\* what compute_score returns
Returned(r) == [score |-> r.score, acc |-> r.acc, pred |-> r.pred]

(***************************************************************************)
(* C3: compute_score returns one of three outcomes: Invalid extraction     *)
(* gives score -formatWeight - accWeight and acc false, whatever the       *)
(* ground truth; Valid with the lower-cased node among the trimmed,        *)
(* lower-cased candidates gives formatWeight + accWeight and acc true;     *)
(* Valid otherwise gives formatWeight - accWeight and acc false.  acc is   *)
(* true only for a Valid extraction, and a format penalty never comes      *)
(* with an accuracy reward.                                                *)
(***************************************************************************)
C3_ThreeOutcomes ==
  pc = "scored" =>
    LET v == validate_and_extract_llm_content(solution_str)
        hit == v.flag /\ Lower(v.node) \in Candidates(ground_truth)
    IN /\ ~v.flag => (res.score = (0 - std_format) - std_acc /\ res.acc = FALSE)
       /\ hit => (res.score = std_format + std_acc /\ res.acc = TRUE)
       /\ (v.flag /\ ~hit) => (res.score = std_format - std_acc /\ res.acc = FALSE)
       /\ res.acc => v.flag
       /\ (res.acc_score = std_acc /\ std_acc # 0) => res.format_score = std_format
       /\ (std_format > 0 /\ std_acc > 0 /\ std_format # std_acc)
            => res.score # std_acc - std_format

\* a node that matches a candidate only after trimming and lower-casing
C3_Witness ==
  /\ pc = "scored"
  /\ res.acc
  /\ res.score = DefaultStdFormat + DefaultStdAcc
  /\ std_format = DefaultStdFormat
  /\ std_acc = DefaultStdAcc
  /\ ground_truth.isStr
  /\ res.v.node \notin Pieces(ground_truth.str)
  /\ \A c \in Pieces(ground_truth.str) : Lower(c) # Lower(res.v.node)

(***************************************************************************)
(* C8: for a sequence of candidate labels without commas, the ground truth *)
(* given as the labels joined with commas, with or without spaces around   *)
(* the commas, gives the same score, acc and pred as the sequence itself.  *)
(***************************************************************************)
NoComma(l) == \A x \in 1..Len(l) : \A y \in 1..Len(l[x]) : l[x][y] # ","

C8_JoinedEqualsSequence ==
  (pc = "scored" /\ ~ground_truth.isStr /\ NoComma(ground_truth.list)) =>
    \A sep \in {<<",">>, <<",", " ">>, <<" ", ",", " ">>} :
      Returned(compute_score(solution_str, GtStr(Join(ground_truth.list, sep)),
                             std_format, std_acc)) = Returned(res)

\* a sequence of two different labels, the second of which matches the node
C8_Witness ==
  /\ pc = "scored"
  /\ ~ground_truth.isStr
  /\ Len(ground_truth.list) = 2
  /\ res.acc
  /\ Lower(Strip(ground_truth.list[1])) # Lower(res.v.node)

(***************************************************************************)
(* C9: pred begins with exactly one of the three status tags and the tag   *)
(* agrees with the outcome: the format-failure tag and then the raw        *)
(* solution text iff extraction is Invalid; the node-success tag iff acc;  *)
(* the node-failure tag iff Valid and not acc; after the tag of a Valid    *)
(* extraction comes 'Intent: <intent>\nNode: <node>\nReason: <reason>'.    *)
(***************************************************************************)
C9_PredTag ==
  pc = "scored" =>
    LET v == validate_and_extract_llm_content(solution_str)
        body == LitIntent \o <<" ">> \o v.intent \o <<"\n">> \o LitNode \o <<" ">>
                  \o v.node \o <<"\n">> \o LitReason \o <<" ">> \o v.reason
    IN /\ TagCount(res.pred) = 1
       /\ ~v.flag <=> res.pred = TagFormatBad \o solution_str
       /\ ~v.flag <=> StartsWith(res.pred, TagFormatBad)
       /\ res.acc <=> StartsWith(res.pred, TagNodeGood)
       /\ (v.flag /\ ~res.acc) <=> StartsWith(res.pred, TagNodeBad)
       /\ (v.flag /\ res.acc) => res.pred = TagNodeGood \o body
       /\ (v.flag /\ ~res.acc) => res.pred = TagNodeBad \o body

\* an Invalid text that differs from its normalized form
C9_Witness ==
  /\ pc = "scored"
  /\ ~res.v.flag
  /\ Occ(solution_str, LitIntent) # {}
  /\ Clean(solution_str) # solution_str
  /\ StartsWith(res.pred, TagFormatBad)

====
